---- MODULE Spec2Model ----
(***************************************************************************)
(* cim-component: the Component trait (src/src/lib.rs), the documented     *)
(* implementation pattern (impl Component for Label), ComponentError with  *)
(* its derived equality and its Display, and component_type_id.            *)
(*                                                                         *)
(* Component instances live in a heap of objects; each object owns one     *)
(* String buffer (Label(String)).  Execution contexts call the trait's     *)
(* methods on shared instances; every call is split into the steps that    *)
(* read or write memory, so that calls of different contexts interleave.   *)
(***************************************************************************)
EXTENDS Naturals, Sequences, FiniteSets, TLC

\* ------------------------------------------------------------- bounds
MaxObjs == 2
NCtx == 2

Addr == 1..MaxObjs
Ctx == 1..NCtx

\* The concrete types that implement Component, and the inner values.
ComponentTypes == {"Label", "Weight"}
Values == {"north", "south"}
\* The literals an implementer writes in type_name.
Literals == {"Label", "Weight"}

\* ------------------------------------------------------------- state
VARIABLES
    lit,      \* lit[T]: the literal T's impl returns from type_name
    heap,     \* heap[a]: the object at address a: its concrete type, its buffer
    bufs,     \* bufs[b]: the contents of String buffer b
    pc,       \* pc[c]: where context c is in its call
    self,     \* self[c]: the &self of context c's call
    want,     \* want[c]: the type parameter of the call (downcast_ref::<U>)
    view,     \* view[c]: the &dyn Any as_any returned / the clone in flight
    ret,      \* ret[c]: what context c's last call returned
    ctor,     \* ctor[a]: the type and value the object at a was constructed with
    origin,   \* origin[a]: the instance the box at a was cloned from (0: none)
    e1, e2,   \* two ComponentError values held by a collaborator
    cmp,      \* the result of e1 == e2
    out       \* the rendering of e1

vars == <<lit, heap, bufs, pc, self, want, view, ret, ctor, origin,
          e1, e2, cmp, out>>
compVars == <<lit, heap, bufs, pc, self, want, view, ret, ctor, origin>>
errVars == <<e1, e2, cmp, out>>

\* ------------------------------------------------------------- memory
NoObj == [ty |-> "none", buf |-> 0]
Freed == "(freed)"
NoView == [addr |-> 0, vtable |-> "none"]
NoRet == [kind |-> "unit"]
None == [kind |-> "None"]
Some(T, v) == [kind |-> "Some", ty |-> T, val |-> v]
NoCtor == [ty |-> "none", val |-> ""]

Live(a) == heap[a] # NoObj
FreeAddrs == {a \in Addr : ~Live(a)}
FreeBufs == {b \in Addr : bufs[b] = Freed}
Min(S) == CHOOSE x \in S : \A y \in S : x <= y

\* The inner value of the instance at a (Label.0), and the instance as a value.
Value(a) == bufs[heap[a].buf]
Obj(a) == IF Live(a) THEN [ty |-> heap[a].ty, val |-> Value(a)] ELSE NoCtor

\* The allocations calls in flight will still make.
Pending == Cardinality({c \in Ctx : pc[c] = "box_new"})

\* ------------------------------------------------------------- type identity
\* std::any::TypeId: one identifier per Rust type, unique across the program.
RustTypes == <<"Label", "Weight", "String", "dyn Component", "dyn Any">>
TypeIdOf(T) == [t |-> CHOOSE i \in DOMAIN RustTypes : RustTypes[i] = T]

\* pub fn component_type_id<T: Component + 'static>() -> TypeId { TypeId::of::<T>() }
\* (faulty variant: the id of the trait object type, whatever T).
component_type_id_erased(T) == TypeIdOf("dyn Component")
component_type_id(T) == TypeIdOf(T)

\* ------------------------------------------------------------- the documented impl
\* fn as_any(&self) -> &dyn Any { self }: the reference to the object, with the
\* vtable of its concrete type.
\* (faulty variant: &self.0, the inner String, as the view.)
as_any_inner(a) == [addr |-> a, vtable |-> "String"]
as_any(a) == [addr |-> a, vtable |-> heap[a].ty]

\* <dyn Any>::type_id through the vtable, and downcast_ref::<U>: the reference
\* as &U when the ids agree, None otherwise.
AnyTypeId(v) == TypeIdOf(v.vtable)
downcast_ref(v, U) ==
    IF AnyTypeId(v) = TypeIdOf(U) THEN Some(U, Value(v.addr)) ELSE None

\* fn type_name(&self) -> &'static str { "Label" }
\* (faulty variant: the name taken from the value.)
type_name_of_value(a) == Value(a)
type_name(a) == lit[heap[a].ty]

\* self.clone() of #[derive(Clone)] struct Label(String): a new String with a
\* copy of the contents.
\* (faulty variant: a fresh default value instead of a copy.)
clone_default(a) == [ty |-> heap[a].ty, val |-> ""]
clone(a) == [ty |-> heap[a].ty, val |-> Value(a)]

\* ------------------------------------------------------------- initial state
InitComp ==
    /\ lit \in {f \in [ComponentTypes -> Literals] : f["Label"] = "Label"}
    /\ heap = [a \in Addr |-> NoObj]
    /\ bufs = [b \in Addr |-> Freed]
    /\ pc = [c \in Ctx |-> "idle"]
    /\ self = [c \in Ctx |-> 0]
    /\ want = [c \in Ctx |-> "none"]
    /\ view = [c \in Ctx |-> NoView]
    /\ ret = [c \in Ctx |-> NoRet]
    /\ ctor = [a \in Addr |-> NoCtor]
    /\ origin = [a \in Addr |-> 0]

NoErr == [variant |-> "none", name |-> ""]
InitErr ==
    /\ e1 = NoErr
    /\ e2 = NoErr
    /\ cmp = "none"
    /\ out = "none"

Init == InitComp /\ InitErr

\* ------------------------------------------------------------- application code
\* Label(v): application code constructs a component value.
Construct(T, v) ==
    /\ Cardinality(FreeAddrs) > Pending
    /\ LET a == Min(FreeAddrs)
           b == Min(FreeBufs)
       IN /\ heap' = [heap EXCEPT ![a] = [ty |-> T, buf |-> b]]
          /\ bufs' = [bufs EXCEPT ![b] = v]
          /\ ctor' = [ctor EXCEPT ![a] = [ty |-> T, val |-> v]]
          /\ origin' = [origin EXCEPT ![a] = 0]
    /\ UNCHANGED <<lit, pc, self, want, view, ret, errVars>>

\* ------------------------------------------------------------- calls
\* Context c, holding a shared reference to the live instance at a, calls
\* a.as_any(): the reference to the same object as &dyn Any.
AsAny(c, a, U) ==
    /\ pc[c] = "idle"
    /\ Live(a)
    /\ self' = [self EXCEPT ![c] = a]
    /\ want' = [want EXCEPT ![c] = U]
    /\ view' = [view EXCEPT ![c] = as_any(a)]
    /\ pc' = [pc EXCEPT ![c] = "downcast_ref"]
    /\ UNCHANGED <<lit, heap, bufs, ret, ctor, origin, errVars>>

\* .downcast_ref::<U>() on the view: compares the ids, then reads the object.
DowncastRef(c) ==
    /\ pc[c] = "downcast_ref"
    /\ ret' = [ret EXCEPT ![c] = downcast_ref(view[c], want[c])]
    /\ pc' = [pc EXCEPT ![c] = "done_downcast"]
    /\ UNCHANGED <<lit, heap, bufs, self, want, view, ctor, origin, errVars>>

\* a.type_name()
TypeName(c, a) ==
    /\ pc[c] = "idle"
    /\ Live(a)
    /\ self' = [self EXCEPT ![c] = a]
    /\ ret' = [ret EXCEPT ![c] = [kind |-> "str", val |-> type_name(a)]]
    /\ pc' = [pc EXCEPT ![c] = "done_type_name"]
    /\ UNCHANGED <<lit, heap, bufs, want, view, ctor, origin, errVars>>

\* a.clone_box(), first half: self.clone() reads the instance into a new value.
\* (faulty variant: the contents are moved out of the instance.)
CloneTake(c, a) ==
    /\ pc[c] = "idle"
    /\ Live(a)
    /\ Cardinality(FreeAddrs) > Pending
    /\ self' = [self EXCEPT ![c] = a]
    /\ view' = [view EXCEPT ![c] = clone(a)]
    /\ bufs' = [bufs EXCEPT ![heap[a].buf] = ""]
    /\ pc' = [pc EXCEPT ![c] = "box_new"]
    /\ UNCHANGED <<lit, heap, want, ret, ctor, origin, errVars>>
Clone(c, a) ==
    /\ pc[c] = "idle"
    /\ Live(a)
    /\ Cardinality(FreeAddrs) > Pending
    /\ self' = [self EXCEPT ![c] = a]
    /\ view' = [view EXCEPT ![c] = clone(a)]
    /\ pc' = [pc EXCEPT ![c] = "box_new"]
    /\ UNCHANGED <<lit, heap, bufs, want, ret, ctor, origin, errVars>>

\* a.clone_box(), second half: Box::new(..) moves the copy into a new allocation.
\* (faulty variant: the box points at the original's buffer.)
BoxNewShared(c) ==
    /\ pc[c] = "box_new"
    /\ FreeAddrs # {}
    /\ LET a == Min(FreeAddrs)
       IN /\ heap' = [heap EXCEPT ![a] = [ty |-> view[c].ty, buf |-> heap[self[c]].buf]]
          /\ ctor' = [ctor EXCEPT ![a] = view[c]]
          /\ origin' = [origin EXCEPT ![a] = self[c]]
          /\ ret' = [ret EXCEPT ![c] = [kind |-> "Box", addr |-> a]]
    /\ pc' = [pc EXCEPT ![c] = "done_clone"]
    /\ UNCHANGED <<lit, bufs, self, want, view, errVars>>
BoxNew(c) ==
    /\ pc[c] = "box_new"
    /\ FreeAddrs # {}
    /\ FreeBufs # {}
    /\ LET a == Min(FreeAddrs)
           b == Min(FreeBufs)
       IN /\ heap' = [heap EXCEPT ![a] = [ty |-> view[c].ty, buf |-> b]]
          /\ bufs' = [bufs EXCEPT ![b] = view[c].val]
          /\ ctor' = [ctor EXCEPT ![a] = view[c]]
          /\ origin' = [origin EXCEPT ![a] = self[c]]
          /\ ret' = [ret EXCEPT ![c] = [kind |-> "Box", addr |-> a]]
    /\ pc' = [pc EXCEPT ![c] = "done_clone"]
    /\ UNCHANGED <<lit, self, want, view, errVars>>

\* component_type_id::<T>()
ComponentTypeId(c, T) ==
    /\ pc[c] = "idle"
    /\ want' = [want EXCEPT ![c] = T]
    /\ ret' = [ret EXCEPT ![c] = [kind |-> "TypeId", key |-> component_type_id(T)]]
    /\ pc' = [pc EXCEPT ![c] = "done_type_id"]
    /\ UNCHANGED <<lit, heap, bufs, self, view, ctor, origin, errVars>>

\* The call's result goes out of use: the shared borrow of self ends.
Return(c) ==
    /\ pc[c] \in {"done_downcast", "done_type_name", "done_clone", "done_type_id"}
    /\ pc' = [pc EXCEPT ![c] = "idle"]
    /\ self' = [self EXCEPT ![c] = 0]
    /\ want' = [want EXCEPT ![c] = "none"]
    /\ view' = [view EXCEPT ![c] = NoView]
    /\ ret' = [ret EXCEPT ![c] = NoRet]
    /\ UNCHANGED <<lit, heap, bufs, ctor, origin, errVars>>

\* The calls of the capability, made from any context on any live instance.
Calls ==
    \/ \E c \in Ctx, a \in Addr, U \in ComponentTypes : AsAny(c, a, U)
    \/ \E c \in Ctx : DowncastRef(c)
    \/ \E c \in Ctx, a \in Addr : TypeName(c, a)
    \/ \E c \in Ctx, a \in Addr : Clone(c, a)
    \/ \E c \in Ctx : BoxNew(c)
    \/ \E c \in Ctx, T \in ComponentTypes : ComponentTypeId(c, T)
    \/ \E c \in Ctx : Return(c)

Next ==
    \/ \E T \in ComponentTypes, v \in Values : Construct(T, v)
    \/ Calls

Spec == Init /\ [][Next]_vars

\* ------------------------------------------------------------- the owner
\* No call holds a reference to the instance at a or to a box it returned.
Unborrowed(a) ==
    \A c \in Ctx : self[c] # a /\ ret[c] # [kind |-> "Box", addr |-> a]

\* The owner of the value at a, through its concrete type, writes its field
\* (label.0 = v): needs the exclusive borrow.
Mutate(a, v) ==
    /\ Live(a)
    /\ Unborrowed(a)
    /\ bufs' = [bufs EXCEPT ![heap[a].buf] = v]
    /\ UNCHANGED <<lit, heap, pc, self, want, view, ret, ctor, origin, errVars>>

\* The owner drops the value (or the Box<dyn Component>) at a: the object and
\* its String buffer are freed.
Drop(a) ==
    /\ Live(a)
    /\ Unborrowed(a)
    /\ heap' = [heap EXCEPT ![a] = NoObj]
    /\ bufs' = [bufs EXCEPT ![heap[a].buf] = Freed]
    /\ ctor' = [ctor EXCEPT ![a] = NoCtor]
    /\ origin' = [b \in Addr |-> IF b = a \/ origin[b] = a THEN 0 ELSE origin[b]]
    /\ UNCHANGED <<lit, pc, self, want, view, ret, errVars>>

\* Values are constructed, cloned, written by their owners and dropped.
NextOwner ==
    \/ \E T \in ComponentTypes, v \in Values : Construct(T, v)
    \/ \E c \in Ctx, a \in Addr : Clone(c, a)
    \/ \E c \in Ctx : BoxNew(c)
    \/ \E c \in Ctx : Return(c)
    \/ \E a \in Addr, v \in Values : Mutate(a, v)
    \/ \E a \in Addr : Drop(a)

SpecOwner == Init /\ [][NextOwner]_vars

\* ------------------------------------------------------------- ComponentError
\* enum ComponentError { AlreadyExists(String), NotFound(String) }
Variants == <<"AlreadyExists", "NotFound">>
ErrorNames == {"Label", "Weight", ""}
AlreadyExists(n) == [variant |-> "AlreadyExists", name |-> n]
NotFound(n) == [variant |-> "NotFound", name |-> n]
ComponentError == {AlreadyExists(n) : n \in ErrorNames} \cup {NotFound(n) : n \in ErrorNames}

\* #[derive(PartialEq)]: the discriminants are compared first, then the fields
\* of the common variant.
discriminant(e) == CHOOSE i \in DOMAIN Variants : Variants[i] = e.variant
\* (faulty variant: the names alone are compared.)
eq_names_only(a, b) == a.name = b.name
eq(a, b) ==
    /\ discriminant(a) = discriminant(b)
    /\ CASE a.variant = "AlreadyExists" /\ b.variant = "AlreadyExists" -> a.name = b.name
         [] a.variant = "NotFound" /\ b.variant = "NotFound" -> a.name = b.name
         [] OTHER -> FALSE

\* impl Display for ComponentError: write!(f, "...: {}", name) appends the
\* literal and then the name to the formatter's buffer f.
\* (faulty variant: both arms write the first message.)
fmt_already_exists(e, f) == f \o "Component already exists: " \o e.name
fmt(e, f) ==
    CASE e.variant = "AlreadyExists" -> f \o "Component already exists: " \o e.name
      [] e.variant = "NotFound" -> f \o "Component not found: " \o e.name
\* e.to_string(): fmt into an empty String.
to_string(e) == fmt(e, "")

\* A collaborator makes an error value; what was computed from the old one is
\* forgotten.
MakeE1(e) ==
    /\ e1' = e
    /\ cmp' = "none"
    /\ out' = "none"
    /\ UNCHANGED <<e2, compVars>>

MakeE2(e) ==
    /\ e2' = e
    /\ cmp' = "none"
    /\ UNCHANGED <<e1, out, compVars>>

\* e1 == e2
Compare ==
    /\ e1 # NoErr
    /\ e2 # NoErr
    /\ cmp' = IF eq(e1, e2) THEN "true" ELSE "false"
    /\ UNCHANGED <<e1, e2, out, compVars>>

\* format!("{}", e1)
Render ==
    /\ e1 # NoErr
    /\ out' = to_string(e1)
    /\ UNCHANGED <<e1, e2, cmp, compVars>>

NextError ==
    \/ \E e \in ComponentError : MakeE1(e)
    \/ \E e \in ComponentError : MakeE2(e)
    \/ Compare
    \/ Render

SpecError == Init /\ [][NextError]_vars

\* ------------------------------------------------------------- properties
DoneDowncast(c) == pc[c] = "done_downcast"
DoneTypeName(c) == pc[c] = "done_type_name"
DoneClone(c) == pc[c] = "done_clone"
DoneTypeId(c) == pc[c] = "done_type_id"
\* The concrete type T of the instance context c called.
TypeOfSelf(c) == heap[self[c]].ty

\* C1: downcasting v.as_any() to v's own concrete type T succeeds with a value
\* equal to v; downcasting it to any other concrete type U returns None.
C1_DowncastOwnTypeOnly ==
    \A c \in Ctx : DoneDowncast(c) =>
        IF want[c] = TypeOfSelf(c)
        THEN ret[c] = [kind |-> "Some", ty |-> TypeOfSelf(c), val |-> Value(self[c])]
        ELSE ret[c] = [kind |-> "None"]

C1_Witness ==
    \E c, d \in Ctx :
        /\ DoneDowncast(c) /\ want[c] = TypeOfSelf(c) /\ ret[c].kind = "Some"
        /\ DoneDowncast(d) /\ want[d] # TypeOfSelf(d) /\ ret[d].kind = "None"
        /\ self[c] = self[d]

\* C2: the box clone_box returns is another instance than the original, with
\* storage of its own, and downcasting it to the original's type T yields a
\* value equal to the original.
C2_CloneEqualAndDistinct ==
    /\ \A b \in Addr : (Live(b) /\ origin[b] # 0) =>
          /\ b # origin[b]
          /\ heap[b].buf # heap[origin[b]].buf
          /\ heap[b].ty = heap[origin[b]].ty
    /\ \A c \in Ctx : (DoneClone(c)) => ret[c].addr # self[c]
    /\ \A c \in Ctx : (DoneDowncast(c) /\ origin[self[c]] # 0
                        /\ want[c] = heap[origin[self[c]]].ty) =>
          ret[c] = [kind |-> "Some", ty |-> want[c], val |-> Value(origin[self[c]])]

C2_Witness ==
    \E c \in Ctx :
        /\ DoneDowncast(c)
        /\ origin[self[c]] # 0
        /\ ret[c] = [kind |-> "Some", ty |-> "Label", val |-> "north"]
        /\ Obj(origin[self[c]]) = [ty |-> "Label", val |-> "north"]

C4_TypeIdInjective ==
    \A c, d \in Ctx : (DoneTypeId(c) /\ DoneTypeId(d)) =>
        (ret[c].key = ret[d].key <=> want[c] = want[d])

C4_Witness ==
    \E c, d \in Ctx :
        /\ c # d /\ DoneTypeId(c) /\ DoneTypeId(d)
        /\ want[c] # want[d] /\ ret[c].key # ret[d].key
        /\ FreeAddrs = {}

\* C5 as stated: two type_name calls return the same string exactly when the
\* instances have the same concrete type.
C5_Original ==
    \A c, d \in Ctx : (DoneTypeName(c) /\ DoneTypeName(d)) =>
        (ret[c].val = ret[d].val <=> TypeOfSelf(c) = TypeOfSelf(d))

\* C5 amended: type_name returns the literal of the instance's impl, the same
\* string for every instance of one concrete type whatever its value ("Label"
\* for Label); distinct types may name the same literal.
C5_SamePerType ==
    /\ \A c, d \in Ctx : (DoneTypeName(c) /\ DoneTypeName(d)
                           /\ TypeOfSelf(c) = TypeOfSelf(d)) => ret[c].val = ret[d].val
    /\ \A c \in Ctx : DoneTypeName(c) => ret[c].val = lit[TypeOfSelf(c)]
    /\ \A c \in Ctx : (DoneTypeName(c) /\ TypeOfSelf(c) = "Label") => ret[c].val = "Label"

C5_Witness ==
    \E c, d \in Ctx :
        /\ DoneTypeName(c) /\ DoneTypeName(d)
        /\ self[c] # self[d]
        /\ TypeOfSelf(c) = TypeOfSelf(d)
        /\ Value(self[c]) # Value(self[d])
        /\ ret[c].val = ret[d].val

\* C6: e1 == e2 is true exactly when both are the same variant with the same
\* name; AlreadyExists(n) never equals NotFound(n).
C6_ErrorEquality ==
    cmp # "none" =>
        /\ cmp = "true" <=> (e1.variant = e2.variant /\ e1.name = e2.name)
        /\ (e1.variant # e2.variant /\ e1.name = e2.name) => cmp = "false"

C6_Witness ==
    /\ cmp = "false"
    /\ e1 = [variant |-> "AlreadyExists", name |-> "Label"]
    /\ e2 = [variant |-> "NotFound", name |-> "Label"]

\* C7: the rendering is the variant's message followed by the name, and nothing
\* else: no character after the name, no line break.
C7_Prefix(e) ==
    IF e.variant = "AlreadyExists" THEN "Component already exists: "
    ELSE "Component not found: "
C7_DisplayExact ==
    out # "none" =>
        /\ out = C7_Prefix(e1) \o e1.name
        /\ Len(out) = Len(C7_Prefix(e1)) + Len(e1.name)
        /\ e1 = [variant |-> "AlreadyExists", name |-> "Label"]
              => out = "Component already exists: Label"
        /\ e1 = [variant |-> "NotFound", name |-> "Label"]
              => out = "Component not found: Label"
        /\ e1 = [variant |-> "NotFound", name |-> ""]
              => out = "Component not found: "

C7_Witness ==
    /\ out = "Component not found: Label"
    /\ e1.variant = "NotFound"

\* C8: whatever calls were made, every live instance has the type and value it
\* was constructed with.
C8_Immutable ==
    \A a \in Addr : Live(a) => Obj(a) = ctor[a]

C8_Witness ==
    \E c, d \in Ctx :
        /\ DoneDowncast(c) /\ ret[c].kind = "None"
        /\ DoneClone(d)
        /\ self[c] = self[d]
        /\ Obj(self[c]) = ctor[self[c]]

\* C9: with calls of several contexts interleaved on shared instances, each
\* call returns what it returns alone on the instance as constructed, and no
\* instance changes.
C9_ReadersAgree ==
    /\ \A a \in Addr : Live(a) => Obj(a) = ctor[a]
    /\ \A c \in Ctx :
          /\ DoneDowncast(c) =>
                ret[c] = IF want[c] = ctor[self[c]].ty
                         THEN [kind |-> "Some", ty |-> want[c], val |-> ctor[self[c]].val]
                         ELSE [kind |-> "None"]
          /\ DoneTypeName(c) => ret[c].val = lit[ctor[self[c]].ty]
          /\ DoneClone(c) => /\ ctor[ret[c].addr] = ctor[self[c]]
                             /\ Obj(ret[c].addr) = ctor[self[c]]
          /\ pc[c] = "box_new" => view[c] = ctor[self[c]]

C9_Witness ==
    \E c, d \in Ctx :
        /\ c # d
        /\ self[c] = self[d]
        /\ pc[c] = "box_new"
        /\ pc[d] = "done_downcast"
        /\ ret[d].kind = "Some"

\* C10: a downcast to U (of an instance or of a clone) succeeds exactly when
\* component_type_id::<U>() is the key of the instance's concrete type, and then
\* yields the instance's value as a U.
C10_DowncastAgreesWithTypeId ==
    \A c \in Ctx : DoneDowncast(c) =>
        /\ ret[c].kind = "Some"
              <=> component_type_id(want[c]) = component_type_id(TypeOfSelf(c))
        /\ ret[c].kind = "Some" => (ret[c].ty = want[c] /\ ret[c].val = Value(self[c]))

C10_Witness ==
    \E c, d \in Ctx :
        /\ DoneDowncast(c) /\ origin[self[c]] # 0 /\ ret[c].kind = "Some"
        /\ DoneDowncast(d) /\ origin[self[d]] = 0 /\ ret[d].kind = "None"

====
